---- MODULE Spec2Model ----
(***************************************************************************)
(* A model of the PGB event scheduler backend: the realtime presence map   *)
(* of the server entry point, the department-permission routes and the     *)
(* startup / cleanup-trigger logic.                                        *)
(***************************************************************************)
EXTENDS Integers, Sequences, FiniteSets, TLC

\* ------------------------------------------------------------------------
\* Bounds and input sets
\* ------------------------------------------------------------------------

\* Number of socket ids that may ever be handed out.
MaxConns == 2

\* User ids a client may send with join-user-room.
UserIds == {"u1", "u2"}

\* Conversation ids a client may send with join-conversation.
ConversationIds == {"k1"}

ConnIds == 1..MaxConns

NoConn == 0

NoUser == "nobody"

VARIABLES
    connectedUsers,   \* the Map userId -> socket.id, in insertion order
    sockets,          \* per socket id: "new", "connected" or "disconnected"
    rooms,            \* per socket id: the rooms of the socket (of its session)
    lastEvent,        \* the realtime event handled last
    prevUsers,        \* connectedUsers as it was before that event
    store,            \* the DepartmentPermissions collection: a set of documents
    pendingGets,      \* GET handlers suspended on their backfill write
    req,              \* the permission request answered last
    resp,             \* the response sent to it
    mongoUri,         \* whether process.env.MONGODB_URI is defined
    pc,               \* where startServer / connectDB stands
    connection,       \* the outcome of mongoose.connect
    connectAttempts,  \* calls of mongoose.connect so far
    schedulerStarted, \* startScheduler() has been called
    listening,        \* httpServer.listen() has been called
    cleanupCalls,     \* the POST /api/cleanup-now invocations
    timerRun,         \* the scheduler's own cleanup run
    unhandled,        \* promise rejections no handler caught
    corsEnv,          \* process.env.CORS_ORIGINS
    httpCors,         \* the HTTP request the cors middleware decided last
    ioCors            \* the handshake Socket.IO's cors decided last

presenceVars == <<connectedUsers, sockets, rooms, lastEvent, prevUsers>>

permVars == <<store, pendingGets, req, resp>>

serverVars == <<mongoUri, pc, connection, connectAttempts, schedulerStarted,
                listening, cleanupCalls, timerRun, unhandled>>

corsVars == <<corsEnv, httpCors, ioCors>>

vars == <<connectedUsers, sockets, rooms, lastEvent, prevUsers,
          store, pendingGets, req, resp,
          mongoUri, pc, connection, connectAttempts, schedulerStarted,
          listening, cleanupCalls, timerRun, unhandled,
          corsEnv, httpCors, ioCors>>

\* ------------------------------------------------------------------------
\* The JavaScript Map: a sequence of entries in insertion order
\* ------------------------------------------------------------------------

RemoveAt(m, i) == SubSeq(m, 1, i - 1) \o SubSeq(m, i + 1, Len(m))

Entry(k, v) == [userId |-> k, socketId |-> v]

MapHas(m, k) == \E i \in 1..Len(m) : m[i].userId = k

MapGet(m, k) == LET i == CHOOSE j \in 1..Len(m) : m[j].userId = k IN m[i].socketId

\* Map.prototype.set: an existing key keeps its place, a new key goes last.
MapSet(m, k, v) ==
    IF MapHas(m, k)
    THEN [i \in 1..Len(m) |-> IF m[i].userId = k THEN Entry(k, v) ELSE m[i]]
    ELSE Append(m, Entry(k, v))

\* Map.prototype.delete
MapDelete(m, k) == SelectSeq(m, LAMBDA e : e.userId # k)

UserRoom(u) == <<"user", u>>

ConversationRoom(k) == <<"conversation", k>>

Event(t, c, a) == [type |-> t, conn |-> c, arg |-> a]

\* ------------------------------------------------------------------------
\* Realtime handlers
\* ------------------------------------------------------------------------

InitPresence ==
    /\ connectedUsers = <<>>
    /\ sockets = [c \in ConnIds |-> "new"]
    /\ rooms = [c \in ConnIds |-> {}]
    /\ lastEvent = Event("none", NoConn, NoUser)
    /\ prevUsers = <<>>

\* io.on('connection'): a socket with a fresh id connects.
Connection(c) ==
    /\ sockets[c] = "new"
    /\ \A b \in ConnIds : b < c => sockets[b] # "new"
    /\ sockets' = [sockets EXCEPT ![c] = "connected"]
    /\ lastEvent' = Event("connection", c, NoUser)
    /\ prevUsers' = connectedUsers
    /\ UNCHANGED <<permVars, serverVars, corsVars>>
    /\ UNCHANGED <<connectedUsers, rooms>>

\* Faulty variant: a userId that is already mapped keeps its old socket.
JoinedUsersNoOverwrite(m, u, c) == IF MapHas(m, u) THEN m ELSE MapSet(m, u, c)

\* Faulty variant: the entry is deleted and set again on every join, which
\* moves it to the end of the map.
JoinedUsersReinsert(m, u, c) == Append(MapDelete(m, u), Entry(u, c))

\* What the join-user-room handler leaves in the map.
JoinedUsers(m, u, c) ==
    IF MapHas(m, u)
    THEN LET oldSocketId == MapGet(m, u) IN
         IF oldSocketId # c THEN MapSet(m, u, c) ELSE m
    ELSE MapSet(m, u, c)

JoinUserRoom(c, u) ==
    /\ sockets[c] = "connected"
    /\ connectedUsers' = JoinedUsers(connectedUsers, u, c)
    /\ rooms' = [rooms EXCEPT ![c] = @ \cup {UserRoom(u)}]
    /\ lastEvent' = Event("join-user-room", c, u)
    /\ prevUsers' = connectedUsers
    /\ UNCHANGED <<permVars, serverVars, corsVars>>
    /\ UNCHANGED sockets

TestConnection(c) ==
    /\ sockets[c] = "connected"
    /\ lastEvent' = Event("test-connection", c, NoUser)
    /\ prevUsers' = connectedUsers
    /\ UNCHANGED <<permVars, serverVars, corsVars>>
    /\ UNCHANGED <<connectedUsers, sockets, rooms>>

JoinConversation(c, k) ==
    /\ sockets[c] = "connected"
    /\ rooms' = [rooms EXCEPT ![c] = @ \cup {ConversationRoom(k)}]
    /\ lastEvent' = Event("join-conversation", c, k)
    /\ prevUsers' = connectedUsers
    /\ UNCHANGED <<permVars, serverVars, corsVars>>
    /\ UNCHANGED <<connectedUsers, sockets>>

LeaveConversation(c, k) ==
    /\ sockets[c] = "connected"
    /\ rooms' = [rooms EXCEPT ![c] = @ \ {ConversationRoom(k)}]
    /\ lastEvent' = Event("leave-conversation", c, k)
    /\ prevUsers' = connectedUsers
    /\ UNCHANGED <<permVars, serverVars, corsVars>>
    /\ UNCHANGED <<connectedUsers, sockets>>

\* Faulty variant: the loop without its break deletes every entry of the
\* socket.
CleanedUpAll(m, c) == SelectSeq(m, LAMBDA e : e.socketId # c)

\* Faulty variant: the loop without its test of the socket id deletes the
\* first entry of the map, whose ever it is.
CleanedUpFirst(m, c) == IF Len(m) > 0 THEN Tail(m) ELSE m

\* The disconnect handler's loop: delete the first entry of the socket, break.
CleanedUp(m, c) ==
    IF \E i \in 1..Len(m) : m[i].socketId = c
    THEN LET first == CHOOSE i \in 1..Len(m) :
                          /\ m[i].socketId = c
                          /\ \A j \in 1..(i - 1) : m[j].socketId # c
         IN MapDelete(m, m[first].userId)
    ELSE m

\* The socket's rooms stay with its session, for connectionStateRecovery.
Disconnect(c) ==
    /\ sockets[c] = "connected"
    /\ connectedUsers' = CleanedUp(connectedUsers, c)
    /\ sockets' = [sockets EXCEPT ![c] = "disconnected"]
    /\ lastEvent' = Event("disconnect", c, NoUser)
    /\ prevUsers' = connectedUsers
    /\ UNCHANGED <<permVars, serverVars, corsVars>>
    /\ UNCHANGED rooms

\* connectionStateRecovery: a client that lost its connection comes back and
\* io.on('connection') runs for a socket with the old id and rooms.
Recovered(c) ==
    /\ sockets[c] = "disconnected"
    /\ sockets' = [sockets EXCEPT ![c] = "connected"]
    /\ lastEvent' = Event("connection", c, NoUser)
    /\ prevUsers' = connectedUsers
    /\ UNCHANGED <<permVars, serverVars, corsVars>>
    /\ UNCHANGED <<connectedUsers, rooms>>

NextPresence ==
    \/ \E c \in ConnIds : Connection(c)
    \/ \E c \in ConnIds, u \in UserIds : JoinUserRoom(c, u)
    \/ \E c \in ConnIds : TestConnection(c)
    \/ \E c \in ConnIds, k \in ConversationIds : JoinConversation(c, k)
    \/ \E c \in ConnIds, k \in ConversationIds : LeaveConversation(c, k)
    \/ \E c \in ConnIds : Disconnect(c)
    \/ \E c \in ConnIds : Recovered(c)


\* ------------------------------------------------------------------------
\* Department permissions: values, documents and the collection
\* ------------------------------------------------------------------------

\* Suspended GET handlers the model lets overlap.
MaxPendingGets == 1

Departments == {"d1", "d2"}

\* req.user.id of the authenticated caller.
Updaters == {"u1"}

RequiredFlags == {"myRequirements", "manageLocation", "myCalendar"}

OptionalFlags == {"allEvents", "taggedDepartments"}

\* The fields the GET handler backfills.
BackfilledFlags == {"myCalendar", "allEvents", "taggedDepartments"}

Flags == RequiredFlags \cup OptionalFlags

\* JavaScript values a field may hold: the two booleans, undefined (the field
\* is absent), a non-empty string and the number 0.
Undefined == "undefined"

JsValues == {"true", "false", Undefined, "str", "zero"}

TypeOf(v) ==
    CASE v \in {"true", "false"} -> "boolean"
      [] v = Undefined -> "undefined"
      [] v = "str" -> "string"
      [] v = "zero" -> "number"

Truthy(v) == v \in {"true", "str"}

\* a || b
Or(a, b) == IF Truthy(a) THEN a ELSE b

\* req.body.permissions: undefined, null, a string, or an object with some of
\* the five fields (an array behaves as the object with none of them).
PayloadKinds == {"undefined", "null", "string", "object"}

NoFields == [f \in Flags |-> Undefined]

\* The payload of the documented example: the three required fields given,
\* the two optional ones left out.
ExampleFields ==
    [f \in Flags |->
        CASE f = "myRequirements" -> "true"
          [] f = "manageLocation" -> "false"
          [] f = "myCalendar" -> "true"
          [] OTHER -> Undefined]

\* The object payloads a client sends: the example, and the example with one
\* field given any other value.
ObjectPayloads ==
    {[kind |-> "object", fields |-> [ExampleFields EXCEPT ![f] = v]] :
        f \in Flags, v \in JsValues}

Payloads ==
    {[kind |-> k, fields |-> NoFields] : k \in PayloadKinds \ {"object"}}
        \cup ObjectPayloads

PayloadTruthy(p) == p.kind \in {"string", "object"}

PayloadTypeOf(p) ==
    CASE p.kind = "undefined" -> "undefined"
      [] p.kind = "null" -> "object"
      [] p.kind = "string" -> "string"
      [] p.kind = "object" -> "object"

\* A document of the collection.
Doc(d, fl, by) == [department |-> d, flags |-> fl, updatedBy |-> by]

NoData == Doc("none", NoFields, Undefined)

AllFalse == [f \in Flags |-> "false"]

AllTrue == [f \in Flags |-> "true"]

\* Documents written before the newer fields existed, or by hand: one field
\* is absent from them, or the three newer fields are, and nobody is recorded
\* as their updater.
AbsentFieldSets == {{f} : f \in Flags} \cup {BackfilledFlags}

LegacyFlags ==
    {[f \in Flags |-> IF f \in absent THEN Undefined ELSE "true"] :
        absent \in AbsentFieldSets}

\* The collection the server finds at startup: empty, or one such document
\* (of the first department: the handlers treat all departments alike).
LegacyDepartment == "d1"

InitStores ==
    {{}} \cup {{Doc(LegacyDepartment, fl, Undefined)} : fl \in LegacyFlags}

\* The schema of the collection declares the five flags as booleans, so a
\* write casts each value it is given: a boolean and an absent value stay as
\* they are, any other value becomes one of the booleans (or the cast fails
\* and with it the whole write, which then has no outcome here).
\* Faulty variant: a schema without types takes every value as it comes.
CastBooleanVerbatim(v) == {v}

CastBoolean(v) ==
    IF v \in {"true", "false", Undefined} THEN {v} ELSE {"true", "false"}

\* The permissions objects a write of fl may leave in the collection.
SchemaCast(fl) ==
    {[f \in Flags |->
        CASE f = "myRequirements" -> a
          [] f = "manageLocation" -> b
          [] f = "myCalendar" -> c
          [] f = "allEvents" -> d
          [] f = "taggedDepartments" -> e] :
        a \in CastBoolean(fl["myRequirements"]),
        b \in CastBoolean(fl["manageLocation"]),
        c \in CastBoolean(fl["myCalendar"]),
        d \in CastBoolean(fl["allEvents"]),
        e \in CastBoolean(fl["taggedDepartments"])}

Matching(coll, d) == {doc \in coll : doc.department = d}

Found(coll, d) == Matching(coll, d) # {}

\* Model.findOne({ department })
FindOne(coll, d) == CHOOSE doc \in coll : doc.department = d

\* Model.findOneAndUpdate({ department }, update, { upsert: true }): the
\* update replaces the permissions object and updatedBy of the matching
\* document, or inserts the document when none matches.
\* Faulty variant: an insert instead of an upsert.
UpsertedInsertOnly(coll, d, fl, by) == coll \cup {Doc(d, fl, by)}

Upserted(coll, d, fl, by) ==
    IF Found(coll, d)
    THEN (coll \ {FindOne(coll, d)}) \cup {Doc(d, fl, by)}
    ELSE coll \cup {Doc(d, fl, by)}

\* Model.findOneAndUpdate({ department }, updates) without upsert: sets the
\* dotted paths of `updates` to false on the matching document, if any.
\* Faulty variant: the backfill is never written.
PatchedNothing(coll, d, updates) == coll

Patched(coll, d, updates) ==
    IF Found(coll, d)
    THEN LET old == FindOne(coll, d) IN
         (coll \ {old}) \cup
            {[old EXCEPT !.flags = [f \in Flags |->
                                      IF f \in updates THEN "false" ELSE @[f]]]}
    ELSE coll

\* A request as the handler sees it: the route, req.params.department,
\* req.user.id and req.body.permissions.
NoPayload == [kind |-> "none", fields |-> NoFields]

Request(op, d, by, p) == [op |-> op, department |-> d, by |-> by, payload |-> p]

NoRequest == Request("none", "none", Undefined, NoPayload)

\* res.status(status).json(...)
Response(status, data) == [status |-> status, data |-> data]

Answer(rq, status, data) ==
    /\ req' = rq
    /\ resp' = Response(status, data)

InitPerm ==
    /\ store \in InitStores
    /\ pendingGets = <<>>
    /\ req = NoRequest
    /\ resp = Response(0, NoData)

QuietPerm ==
    /\ store = {}
    /\ pendingGets = <<>>
    /\ req = NoRequest
    /\ resp = Response(0, NoData)

\* ------------------------------------------------------------------------
\* GET /:department
\* ------------------------------------------------------------------------

\* The fields the backward-compatibility branch finds undefined.
MissingFields(doc) == {f \in BackfilledFlags : TypeOf(doc.flags[f]) = "undefined"}

\* The document after the handler has set those fields to false on it.
Defaulted(doc) ==
    [doc EXCEPT !.flags = [f \in Flags |->
                             IF f \in MissingFields(doc) THEN "false" ELSE @[f]]]

\* findOne fails: the catch block answers 500.
GetFails(d) ==
    /\ Answer(Request("get", d, Undefined, NoPayload), 500, NoData)
    /\ UNCHANGED <<store, pendingGets>>

\* Faulty variant: the default object is also inserted into the collection.
GetDefaultInserts(d) ==
    /\ ~Found(store, d)
    /\ store' = store \cup {Doc(d, AllFalse, Undefined)}
    /\ Answer(Request("get", d, Undefined, NoPayload), 200,
              Doc(d, AllFalse, Undefined))
    /\ UNCHANGED pendingGets

\* findOne finds nothing: the handler answers with the default object.
GetDefault(d) ==
    /\ ~Found(store, d)
    /\ Answer(Request("get", d, Undefined, NoPayload), 200,
              Doc(d, AllFalse, Undefined))
    /\ UNCHANGED <<store, pendingGets>>

\* findOne finds a document that needs no update: the handler answers with it.
GetStored(d) ==
    /\ Found(store, d)
    /\ MissingFields(FindOne(store, d)) = {}
    /\ Answer(Request("get", d, Undefined, NoPayload), 200, FindOne(store, d))
    /\ UNCHANGED <<store, pendingGets>>

\* findOne finds a document with missing fields: the handler sets them on its
\* copy and suspends on the findOneAndUpdate that writes them.
GetNeedsUpdate(d) ==
    /\ Found(store, d)
    /\ MissingFields(FindOne(store, d)) # {}
    /\ Len(pendingGets) < MaxPendingGets
    /\ pendingGets' = Append(pendingGets,
          [department |-> d,
           permissions |-> Defaulted(FindOne(store, d)),
           updates |-> MissingFields(FindOne(store, d))])
    /\ UNCHANGED <<store, req, resp>>

\* The suspended handler's write is applied and the handler answers.
GetBackfill(i) ==
    /\ i \in 1..Len(pendingGets)
    /\ pendingGets' = RemoveAt(pendingGets, i)
    /\ store' = Patched(store, pendingGets[i].department, pendingGets[i].updates)
    /\ Answer(Request("get", pendingGets[i].department, Undefined, NoPayload),
              200, pendingGets[i].permissions)

\* The write fails: the catch block answers 500.
GetBackfillFails(i) ==
    /\ i \in 1..Len(pendingGets)
    /\ pendingGets' = RemoveAt(pendingGets, i)
    /\ Answer(Request("get", pendingGets[i].department, Undefined, NoPayload),
              500, NoData)
    /\ UNCHANGED store

\* ------------------------------------------------------------------------
\* PUT /:department
\* ------------------------------------------------------------------------

\* The two validation checks of the handler.
IsObject(p) == PayloadTruthy(p) /\ PayloadTypeOf(p) = "object"

\* Faulty variant: myCalendar, the newest required field, is not checked.
RequiredAreBooleanOldFields(p) ==
    \A f \in RequiredFlags \ {"myCalendar"} : TypeOf(p.fields[f]) = "boolean"

RequiredAreBoolean(p) == \A f \in RequiredFlags : TypeOf(p.fields[f]) = "boolean"

PassesValidation(p) == IsObject(p) /\ RequiredAreBoolean(p)

\* Faulty variant: the optional fields are written as given, without `|| false`.
WrittenFlagsNoDefault(p) == [f \in Flags |-> p.fields[f]]

\* The permissions object the handler writes.
WrittenFlags(p) ==
    [f \in Flags |->
        IF f \in RequiredFlags THEN p.fields[f] ELSE Or(p.fields[f], "false")]

\* A validation check fails: the handler answers 400 before touching the store.
PutRejected(d, u, p) ==
    /\ ~PassesValidation(p)
    /\ Answer(Request("put", d, u, p), 400, NoData)
    /\ UNCHANGED <<store, pendingGets>>

\* The upsert succeeds: the handler answers with the updated document, as
\* the collection's schema has cast it.
PutStored(d, u, p) ==
    /\ PassesValidation(p)
    /\ \E fl \in SchemaCast(WrittenFlags(p)) :
          /\ store' = Upserted(store, d, fl, u)
          /\ Answer(Request("put", d, u, p), 200, Doc(d, fl, u))
    /\ UNCHANGED pendingGets

\* findOneAndUpdate fails: the catch block answers 500.
PutFails(d, u, p) ==
    /\ PassesValidation(p)
    /\ Answer(Request("put", d, u, p), 500, NoData)
    /\ UNCHANGED <<store, pendingGets>>

\* ------------------------------------------------------------------------
\* DELETE /:department
\* ------------------------------------------------------------------------

\* Faulty variant: the reset writes the all-false defaults of GET.
ResetStoredAllFalse(d, u) ==
    /\ store' = Upserted(store, d, AllFalse, u)
    /\ Answer(Request("delete", d, u, NoPayload), 200, Doc(d, AllFalse, u))
    /\ UNCHANGED pendingGets

\* The upsert of all five flags to true succeeds and the handler answers.
ResetStored(d, u) ==
    /\ \E fl \in SchemaCast(AllTrue) :
          /\ store' = Upserted(store, d, fl, u)
          /\ Answer(Request("delete", d, u, NoPayload), 200, Doc(d, fl, u))
    /\ UNCHANGED pendingGets

\* findOneAndUpdate fails: the catch block answers 500.
ResetFails(d, u) ==
    /\ Answer(Request("delete", d, u, NoPayload), 500, NoData)
    /\ UNCHANGED <<store, pendingGets>>

NextPerm ==
    \/ \E d \in Departments : GetFails(d) /\ UNCHANGED <<presenceVars, serverVars, corsVars>>
    \/ \E d \in Departments : GetDefault(d) /\ UNCHANGED <<presenceVars, serverVars, corsVars>>
    \/ \E d \in Departments : GetStored(d) /\ UNCHANGED <<presenceVars, serverVars, corsVars>>
    \/ \E d \in Departments : GetNeedsUpdate(d) /\ UNCHANGED <<presenceVars, serverVars, corsVars>>
    \/ \E i \in 1..MaxPendingGets : GetBackfill(i) /\ UNCHANGED <<presenceVars, serverVars, corsVars>>
    \/ \E i \in 1..MaxPendingGets : GetBackfillFails(i) /\ UNCHANGED <<presenceVars, serverVars, corsVars>>
    \/ \E d \in Departments, u \in Updaters, p \in Payloads :
          PutRejected(d, u, p) /\ UNCHANGED <<presenceVars, serverVars, corsVars>>
    \/ \E d \in Departments, u \in Updaters, p \in Payloads :
          PutStored(d, u, p) /\ UNCHANGED <<presenceVars, serverVars, corsVars>>
    \/ \E d \in Departments, u \in Updaters, p \in Payloads :
          PutFails(d, u, p) /\ UNCHANGED <<presenceVars, serverVars, corsVars>>
    \/ \E d \in Departments, u \in Updaters :
          ResetStored(d, u) /\ UNCHANGED <<presenceVars, serverVars, corsVars>>
    \/ \E d \in Departments, u \in Updaters :
          ResetFails(d, u) /\ UNCHANGED <<presenceVars, serverVars, corsVars>>

\* ------------------------------------------------------------------------
\* Startup: startServer and connectDB
\* ------------------------------------------------------------------------

\* POST /api/cleanup-now invocations the model follows.
MaxCleanupCalls == 2

CleanupCallIds == 1..MaxCleanupCalls

NoCall == [state |-> "none", status |-> 0, overlapped |-> FALSE]

InitServer ==
    /\ mongoUri \in BOOLEAN
    /\ pc = "startServer"
    /\ connection = "none"
    /\ connectAttempts = 0
    /\ schedulerStarted = FALSE
    /\ listening = FALSE
    /\ cleanupCalls = [i \in CleanupCallIds |-> NoCall]
    /\ timerRun = [state |-> "idle", last |-> "none"]
    /\ unhandled = 0

\* The server as the request handlers find it: connected and listening.
RunningServer ==
    /\ mongoUri = TRUE
    /\ pc = "listening"
    /\ connection = "connected"
    /\ connectAttempts = 1
    /\ schedulerStarted = TRUE
    /\ listening = TRUE
    /\ cleanupCalls = [i \in CleanupCallIds |-> NoCall]
    /\ timerRun = [state |-> "idle", last |-> "none"]
    /\ unhandled = 0

\* connectDB throws because MONGODB_URI is not defined; its catch block calls
\* process.exit(1).
MissingUriExits ==
    /\ pc = "startServer"
    /\ ~mongoUri
    /\ pc' = "exited"
    /\ UNCHANGED <<mongoUri, connection, connectAttempts, schedulerStarted,
                   listening, cleanupCalls, timerRun, unhandled>>

\* connectDB calls mongoose.connect(MONGODB_URI) and awaits it.
Connect ==
    /\ pc = "startServer"
    /\ mongoUri
    /\ pc' = "connecting"
    /\ connectAttempts' = connectAttempts + 1
    /\ UNCHANGED <<mongoUri, connection, schedulerStarted, listening,
                   cleanupCalls, timerRun, unhandled>>

\* Faulty variant: the failure is logged and connectDB returns normally.
ConnectFailsContinues ==
    /\ pc = "connecting"
    /\ connection' = "failed"
    /\ pc' = "connected"
    /\ UNCHANGED <<mongoUri, connectAttempts, schedulerStarted, listening,
                   cleanupCalls, timerRun, unhandled>>

\* mongoose.connect rejects: the catch block calls process.exit(1).
ConnectFails ==
    /\ pc = "connecting"
    /\ connection' = "failed"
    /\ pc' = "exited"
    /\ UNCHANGED <<mongoUri, connectAttempts, schedulerStarted, listening,
                   cleanupCalls, timerRun, unhandled>>

\* mongoose.connect resolves: connectDB starts the scheduler and returns.
ConnectSucceeds ==
    /\ pc = "connecting"
    /\ connection' = "connected"
    /\ schedulerStarted' = TRUE
    /\ pc' = "connected"
    /\ UNCHANGED <<mongoUri, connectAttempts, listening, cleanupCalls,
                   timerRun, unhandled>>

\* startServer resumes after `await connectDB()` and calls httpServer.listen.
Listen ==
    /\ pc = "connected"
    /\ listening' = TRUE
    /\ pc' = "listening"
    /\ UNCHANGED <<mongoUri, connection, connectAttempts, schedulerStarted,
                   cleanupCalls, timerRun, unhandled>>

\* ------------------------------------------------------------------------
\* Cleanup: the manual trigger and the scheduler's timer
\* ------------------------------------------------------------------------

Alive == pc \notin {"exited", "crashed"}

RunsInProgress ==
    {i \in CleanupCallIds : cleanupCalls[i].state = "running"}

\* The handler of POST /api/cleanup-now is entered: it calls runCleanupNow()
\* and suspends on the promise.
CleanupRequest(i) ==
    /\ Alive
    /\ listening
    /\ cleanupCalls[i].state = "none"
    /\ \A j \in CleanupCallIds : j < i => cleanupCalls[j].state # "none"
    /\ LET overlap == RunsInProgress # {} \/ timerRun.state = "running" IN
       cleanupCalls' =
          [j \in CleanupCallIds |->
              IF j = i
              THEN [state |-> "running", status |-> 0, overlapped |-> overlap]
              ELSE IF cleanupCalls[j].state = "running"
                   THEN [cleanupCalls[j] EXCEPT !.overlapped = TRUE]
                   ELSE cleanupCalls[j]]
    /\ UNCHANGED <<mongoUri, pc, connection, connectAttempts, schedulerStarted,
                   listening, timerRun, unhandled>>

\* runCleanupNow() resolves: the handler answers success.
CleanupResolves(i) ==
    /\ Alive
    /\ cleanupCalls[i].state = "running"
    /\ cleanupCalls' = [cleanupCalls EXCEPT ![i].state = "resolved",
                                            ![i].status = 200]
    /\ UNCHANGED <<mongoUri, pc, connection, connectAttempts, schedulerStarted,
                   listening, timerRun, unhandled>>

\* Faulty variant: no try/catch around the await, so the rejection is left
\* unhandled and ends the process.
CleanupRejectsUncaught(i) ==
    /\ Alive
    /\ cleanupCalls[i].state = "running"
    /\ cleanupCalls' = [cleanupCalls EXCEPT ![i].state = "rejected"]
    /\ unhandled' = unhandled + 1
    /\ pc' = "crashed"
    /\ UNCHANGED <<mongoUri, connection, connectAttempts, schedulerStarted,
                   listening, timerRun>>

\* runCleanupNow() rejects: the catch block answers 500.
CleanupRejects(i) ==
    /\ Alive
    /\ cleanupCalls[i].state = "running"
    /\ cleanupCalls' = [cleanupCalls EXCEPT ![i].state = "rejected",
                                            ![i].status = 500]
    /\ UNCHANGED <<mongoUri, pc, connection, connectAttempts, schedulerStarted,
                   listening, timerRun, unhandled>>

\* The scheduler's interval fires and a cleanup run begins.
TimerTick ==
    /\ Alive
    /\ schedulerStarted
    /\ timerRun.state = "idle"
    /\ timerRun' = [timerRun EXCEPT !.state = "running"]
    /\ cleanupCalls' =
          [j \in CleanupCallIds |->
              IF cleanupCalls[j].state = "running"
              THEN [cleanupCalls[j] EXCEPT !.overlapped = TRUE]
              ELSE cleanupCalls[j]]
    /\ UNCHANGED <<mongoUri, pc, connection, connectAttempts, schedulerStarted,
                   listening, unhandled>>

\* The timer-driven run ends; a failure is caught and logged by the scheduler.
TimerRunEnds(outcome) ==
    /\ Alive
    /\ timerRun.state = "running"
    /\ timerRun' = [state |-> "idle", last |-> outcome]
    /\ UNCHANGED <<mongoUri, pc, connection, connectAttempts, schedulerStarted,
                   listening, cleanupCalls, unhandled>>

NextServer ==
    \/ MissingUriExits /\ UNCHANGED <<presenceVars, permVars, corsVars>>
    \/ Connect /\ UNCHANGED <<presenceVars, permVars, corsVars>>
    \/ ConnectFails /\ UNCHANGED <<presenceVars, permVars, corsVars>>
    \/ ConnectSucceeds /\ UNCHANGED <<presenceVars, permVars, corsVars>>
    \/ Listen /\ UNCHANGED <<presenceVars, permVars, corsVars>>
    \/ \E i \in CleanupCallIds :
          CleanupRequest(i) /\ UNCHANGED <<presenceVars, permVars, corsVars>>
    \/ \E i \in CleanupCallIds :
          CleanupResolves(i) /\ UNCHANGED <<presenceVars, permVars, corsVars>>
    \/ \E i \in CleanupCallIds :
          CleanupRejects(i) /\ UNCHANGED <<presenceVars, permVars, corsVars>>
    \/ TimerTick /\ UNCHANGED <<presenceVars, permVars, corsVars>>
    \/ \E outcome \in {"ok", "failed"} :
          TimerRunEnds(outcome) /\ UNCHANGED <<presenceVars, permVars, corsVars>>

\* ------------------------------------------------------------------------
\* CORS: the allow-list and the two origin callbacks
\* ------------------------------------------------------------------------

\* Longest CORS_ORIGINS string the model tries.
MaxEnvLen == 3

\* A string is a sequence of symbols: the characters x and y, the comma, and
\* each localhost URL of the default list as one symbol of its own.
Comma == ","

OriginChars == {"x", "y"}

EnvChars == OriginChars \cup {Comma}

StringsOver(alphabet, n) == UNION {[1..k -> alphabet] : k \in 0..n}

\* undefined where a string is expected: the reserved symbol on its own.
NoString == <<Undefined>>

\* process.env.CORS_ORIGINS: undefined, or any string.
CorsEnvs == {NoString} \cup StringsOver(EnvChars, MaxEnvLen)

DefaultOrigins ==
    <<(<<"http://localhost:5173">>), (<<"http://localhost:8080">>),
      (<<"http://localhost:3000">>)>>

\* The Origin header of a request: absent (undefined), or a string.
RequestOrigins ==
    {NoString} \cup StringsOver(OriginChars, 2)
        \cup {DefaultOrigins[i] : i \in 1..Len(DefaultOrigins)}

\* !value, for undefined and for strings
Falsy(v) == v = NoString \/ v = <<>>

\* String.prototype.split(',')
RECURSIVE Split(_)
Split(str) ==
    IF \E i \in 1..Len(str) : str[i] = Comma
    THEN LET first == CHOOSE i \in 1..Len(str) :
                          /\ str[i] = Comma
                          /\ \A j \in 1..(i - 1) : str[j] # Comma
         IN <<SubSeq(str, 1, first - 1)>>
                \o Split(SubSeq(str, first + 1, Len(str)))
    ELSE <<str>>

\* Array.prototype.indexOf, 0-based, -1 when the value is not an element
IndexOf(arr, v) ==
    IF \E i \in 1..Len(arr) : arr[i] = v
    THEN (CHOOSE i \in 1..Len(arr) :
              arr[i] = v /\ \A j \in 1..(i - 1) : arr[j] # v) - 1
    ELSE -1

\* const allowedOrigins
allowedOrigins(env) == IF ~Falsy(env) THEN Split(env) ELSE DefaultOrigins

\* Faulty variant: every origin is let through.
IoOriginAllowedAny(env, origin) == TRUE

\* The origin callback of the Socket.IO server: TRUE for callback(null, true).
IoOriginAllowed(env, origin) ==
    IF Falsy(origin) THEN TRUE
    ELSE IndexOf(allowedOrigins(env), origin) # -1

\* The origin callback of the express cors middleware.
HttpOriginAllowed(env, origin) ==
    IF Falsy(origin) THEN TRUE
    ELSE IF IndexOf(allowedOrigins(env), origin) # -1 THEN TRUE ELSE FALSE

CorsDecision(origin, admitted) ==
    [seen |-> TRUE, origin |-> origin, admitted |-> admitted]

NoCorsDecision == [seen |-> FALSE, origin |-> NoString, admitted |-> FALSE]

InitCors ==
    /\ corsEnv \in CorsEnvs
    /\ httpCors = NoCorsDecision
    /\ ioCors = NoCorsDecision

QuietCors ==
    /\ corsEnv = NoString
    /\ httpCors = NoCorsDecision
    /\ ioCors = NoCorsDecision

\* An HTTP request passes through app.use(cors(...)).
HttpRequest(origin) ==
    /\ httpCors' = CorsDecision(origin, HttpOriginAllowed(corsEnv, origin))
    /\ UNCHANGED <<corsEnv, ioCors>>

\* A Socket.IO handshake request passes through the server's cors option.
IoHandshake(origin) ==
    /\ ioCors' = CorsDecision(origin, IoOriginAllowed(corsEnv, origin))
    /\ UNCHANGED <<corsEnv, httpCors>>

NextCors ==
    \/ \E origin \in RequestOrigins :
          HttpRequest(origin) /\ UNCHANGED <<presenceVars, permVars, serverVars>>
    \/ \E origin \in RequestOrigins :
          IoHandshake(origin) /\ UNCHANGED <<presenceVars, permVars, serverVars>>

\* The whole server: the handlers run once it listens.
Init == InitPresence /\ InitPerm /\ InitServer /\ InitCors

Next == NextServer \/ (pc = "listening" /\ (NextPresence \/ NextPerm \/ NextCors))

Spec == Init /\ [][Next]_vars

\* Startup and cleanup alone.
InitServerOnly == InitPresence /\ QuietPerm /\ InitServer /\ QuietCors

SpecServer == InitServerOnly /\ [][NextServer]_vars

\* The realtime layer of a running server.
InitPresenceOnly == InitPresence /\ QuietPerm /\ RunningServer /\ QuietCors

SpecPresence == InitPresenceOnly /\ [][NextPresence]_vars

\* The permission routes of a running server.
InitPermOnly == InitPresence /\ InitPerm /\ RunningServer /\ QuietCors

SpecPerm == InitPermOnly /\ [][NextPerm]_vars

\* The origin checks of a running server.
InitCorsOnly == InitPresence /\ QuietPerm /\ RunningServer /\ InitCors

SpecCors == InitCorsOnly /\ [][NextCors]_vars

\* ------------------------------------------------------------------------
\* Presence properties
\* ------------------------------------------------------------------------

EntriesOf(m, u) == {i \in 1..Len(m) : m[i].userId = u}

EntriesOn(m, c) == {i \in 1..Len(m) : m[i].socketId = c}

Min(S) == CHOOSE x \in S : \A y \in S : x <= y

\* C1: a userId never has more than one entry in the presence map, and right
\* after join-user-room(u) has been handled on connection c the map holds
\* exactly one entry for u, mapping u to c, also when u was mapped to another
\* connection before (a reconnect).
C1_ReconnectNewestWins ==
    /\ \A u \in UserIds : Cardinality(EntriesOf(connectedUsers, u)) <= 1
    /\ lastEvent.type = "join-user-room" =>
         /\ Cardinality(EntriesOf(connectedUsers, lastEvent.arg)) = 1
         /\ \A i \in EntriesOf(connectedUsers, lastEvent.arg) :
                connectedUsers[i].socketId = lastEvent.conn

\* C1 witness: u was mapped to c1, then joined on another connection c2.
C1_Witness ==
    /\ lastEvent.type = "join-user-room"
    /\ \E i \in EntriesOf(prevUsers, lastEvent.arg) :
           prevUsers[i].socketId # lastEvent.conn
    /\ MapGet(connectedUsers, lastEvent.arg) = lastEvent.conn

\* C2: the disconnect of connection c removes the first entry, in iteration
\* order, whose connection id is c and nothing else; with no such entry the
\* map is unchanged.
C2_DisconnectRemovesFirstMatch ==
    lastEvent.type = "disconnect" =>
        LET matching == EntriesOn(prevUsers, lastEvent.conn) IN
        IF matching = {}
        THEN connectedUsers = prevUsers
        ELSE connectedUsers = RemoveAt(prevUsers, Min(matching))

\* C2 witness: two entries mapped to the disconnecting connection, the first
\* of them was removed and the second is still in the map.
C2_Witness ==
    /\ lastEvent.type = "disconnect"
    /\ Cardinality(EntriesOn(prevUsers, lastEvent.conn)) = 2
    /\ Cardinality(EntriesOn(connectedUsers, lastEvent.conn)) = 1
    /\ Len(connectedUsers) = Len(prevUsers) - 1

\* C12: only join-user-room and disconnect change the presence map:
\* join-user-room(u) on the connection u is already mapped to leaves the map
\* as it was, join-user-room(u) leaves the entries of every other user as
\* they were, and connection, test-connection, join-conversation and
\* leave-conversation leave the whole map as it was.
C12_PresenceMapFrame ==
    /\ lastEvent.type \notin {"join-user-room", "disconnect"} =>
          connectedUsers = prevUsers
    /\ lastEvent.type = "join-user-room" =>
          /\ MapDelete(connectedUsers, lastEvent.arg)
                = MapDelete(prevUsers, lastEvent.arg)
          /\ (\E i \in EntriesOf(prevUsers, lastEvent.arg) :
                  prevUsers[i].socketId = lastEvent.conn) =>
                connectedUsers = prevUsers

\* C12 witness: a user joined again on the connection it is mapped to while
\* the other user is mapped after it, and the map is as it was.
C12_Witness ==
    /\ lastEvent.type = "join-user-room"
    /\ Len(prevUsers) = 2
    /\ prevUsers[1] = Entry(lastEvent.arg, lastEvent.conn)
    /\ connectedUsers = prevUsers

\* A conversation was joined while the map holds entries.
C12_ConversationWitness ==
    /\ lastEvent.type = "join-conversation"
    /\ Len(connectedUsers) = 2
    /\ ConversationRoom(lastEvent.arg) \in rooms[lastEvent.conn]

\* C13: the disconnect of a connection leaves the entry of every user that
\* is mapped to another connection as it was (so the late disconnect of a
\* superseded connection c1 leaves u mapped to c2), and the entry of a user
\* leaves the map only in the disconnect of the connection it maps to.
C13_LateDisconnectKeepsEntry ==
    \A u \in UserIds :
        MapHas(prevUsers, u) =>
            /\ (lastEvent.type = "disconnect"
                    /\ MapGet(prevUsers, u) # lastEvent.conn) =>
                  /\ MapHas(connectedUsers, u)
                  /\ MapGet(connectedUsers, u) = MapGet(prevUsers, u)
            /\ ~MapHas(connectedUsers, u) =>
                  /\ lastEvent.type = "disconnect"
                  /\ lastEvent.conn = MapGet(prevUsers, u)

\* C13 witness: connection c1, which had joined the room of u, disconnected
\* while u, first in the map, was mapped to another connection c2, and u is
\* still mapped to c2.
C13_Witness ==
    /\ lastEvent.type = "disconnect"
    /\ \E u \in UserIds :
          /\ UserRoom(u) \in rooms[lastEvent.conn]
          /\ Len(prevUsers) > 0 /\ prevUsers[1].userId = u
          /\ prevUsers[1].socketId # lastEvent.conn
          /\ MapHas(connectedUsers, u)
          /\ MapGet(connectedUsers, u) = prevUsers[1].socketId

\* C14: every presence entry maps its userId to a connection that is
\* connected, and right after the disconnect of connection c has been handled
\* no entry maps to c.
C14_NoStalePresence ==
    /\ \A i \in 1..Len(connectedUsers) :
          sockets[connectedUsers[i].socketId] = "connected"
    /\ lastEvent.type = "disconnect" =>
          EntriesOn(connectedUsers, lastEvent.conn) = {}


\* ------------------------------------------------------------------------
\* Permission-store properties
\* ------------------------------------------------------------------------

\* A response was sent in this step: every step of the routes sends one,
\* except the step that suspends a get on its backfill write.
Answered == Len(pendingGets') <= Len(pendingGets)

RecordsOf(coll, d) == {doc \in coll : doc.department = d}

FiveFlags ==
    {"myRequirements", "manageLocation", "myCalendar", "allEvents",
     "taggedDepartments"}

\* A get answered in this step by a handler that also started after the
\* previous response (not the completion of a suspended one).
FreshGetAnswered ==
    /\ Answered
    /\ req'.op = "get"
    /\ req'.department = req.department
    /\ pendingGets' = pendingGets

\* C3: a get of a department with no stored record answers 200 (or 500 when
\* the store itself fails, never a not-found), its data has all five flags
\* false, and the collection is unchanged: no record of the department exists
\* afterwards.
C3_GetUnknownDepartment ==
    [][(Answered /\ req'.op = "get" /\ RecordsOf(store, req'.department) = {}) =>
          /\ resp'.status \in {200, 500}
          /\ resp'.status = 200 =>
                /\ resp'.data.department = req'.department
                /\ \A f \in FiveFlags : resp'.data.flags[f] = "false"
          /\ store' = store
          /\ RecordsOf(store', req'.department) = {}]_vars

\* C3 witness: a get answered 200 with five false flags while the department
\* has no record.
C3_Witness ==
    /\ req.op = "get"
    /\ resp.status = 200
    /\ RecordsOf(store, req.department) = {}
    /\ \A f \in FiveFlags : resp.data.flags[f] = "false"

\* The payloads the contract rejects: no payload, not an object, or one of
\* the three required fields omitted or not a boolean.
ContractInvalid(p) ==
    \/ p.kind # "object"
    \/ p.fields["myRequirements"] \notin {"true", "false"}
    \/ p.fields["manageLocation"] \notin {"true", "false"}
    \/ p.fields["myCalendar"] \notin {"true", "false"}

\* C4: a set whose payload is missing or no object, or omits one of
\* myRequirements, manageLocation, myCalendar or gives it a non-boolean, is
\* answered 400, and a set answered 400 leaves the collection unchanged.
C4_InvalidSetRejected ==
    [][(Answered /\ req'.op = "put") =>
          /\ ContractInvalid(req'.payload) => resp'.status = 400
          /\ resp'.status = 400 => store' = store]_vars

\* C4 witness: a set with myCalendar omitted was answered 400 while a record
\* of the department exists.
C4_Witness ==
    /\ req.op = "put"
    /\ resp.status = 400
    /\ req.payload.kind = "object"
    /\ req.payload.fields["myCalendar"] = Undefined
    /\ req.payload.fields["myRequirements"] = "true"
    /\ RecordsOf(store, req.department) # {}

\* A payload the contract accepts: the required fields booleans, the
\* optional ones booleans or left out.
ContractValid(p) ==
    /\ ~ContractInvalid(p)
    /\ p.fields["allEvents"] \in {"true", "false", Undefined}
    /\ p.fields["taggedDepartments"] \in {"true", "false", Undefined}

\* The flags the contract says a valid payload stores.
ExpectedFlags(p) ==
    [f \in FiveFlags |->
        IF p.fields[f] = Undefined THEN "false" ELSE p.fields[f]]

\* C5: a valid set answered 200 leaves the record of d with the flags of the
\* payload, the optional ones false when not given, and a get of d answered
\* right after it returns exactly these flags.
C5_SetGetRoundTrip ==
    [][/\ (Answered /\ req'.op = "put" /\ resp'.status = 200
              /\ ContractValid(req'.payload)) =>
             /\ RecordsOf(store', req'.department) # {}
             /\ \A doc \in RecordsOf(store', req'.department) :
                    doc.flags = ExpectedFlags(req'.payload)
       /\ (req.op = "put" /\ resp.status = 200 /\ ContractValid(req.payload)
              /\ FreshGetAnswered) =>
             /\ resp'.status \in {200, 500}
             /\ resp'.status = 200 =>
                    resp'.data.flags = ExpectedFlags(req.payload)]_vars

\* C5 witness: a get returned the flags of the documented example, as written
\* by a set: allEvents and taggedDepartments false.
C5_Witness ==
    /\ req.op = "get"
    /\ resp.status = 200
    /\ resp.data.updatedBy \in Updaters
    /\ resp.data.flags = [f \in FiveFlags |->
                            IF f \in {"myRequirements", "myCalendar"}
                            THEN "true" ELSE "false"]

\* C6: a reset answered 200 leaves the record of d with all five flags true,
\* whatever the collection held before, and a get of d answered right after it
\* returns all five flags true.
C6_ResetAllTrue ==
    [][/\ (Answered /\ req'.op = "delete") =>
             /\ resp'.status \in {200, 500}
             /\ resp'.status = 200 =>
                   /\ RecordsOf(store', req'.department) # {}
                   /\ \A doc \in RecordsOf(store', req'.department) :
                         \A f \in FiveFlags : doc.flags[f] = "true"
       /\ (req.op = "delete" /\ resp.status = 200 /\ FreshGetAnswered) =>
             /\ resp'.status \in {200, 500}
             /\ resp'.status = 200 =>
                   \A f \in FiveFlags : resp'.data.flags[f] = "true"]_vars

\* C6 witness: a reset answered 200 while a get that had read a partial
\* record of the same department is still suspended.
C6_Witness ==
    /\ req.op = "delete"
    /\ resp.status = 200
    /\ \E i \in 1..Len(pendingGets) : pendingGets[i].department = req.department
    /\ \A doc \in RecordsOf(store, req.department) :
          \A f \in FiveFlags : doc.flags[f] = "true"

\* What a get answered 200 on an existing record does to the flags of F that
\* the record lacks: false is returned and false is stored.
BackfillsFlags(F) ==
    (Answered /\ req'.op = "get" /\ resp'.status = 200) =>
        \A doc \in RecordsOf(store, req'.department) :
            \A f \in F :
                doc.flags[f] = Undefined =>
                    /\ resp'.data.flags[f] = "false"
                    /\ \A after \in RecordsOf(store', req'.department) :
                           after.flags[f] = "false"

\* C7 as stated: a get of an existing record returns false for each of the
\* five flags that is missing and writes false for it.
C7_AsStated == [][BackfillsFlags(FiveFlags)]_vars

\* C7 amended: a get answered 200 on an existing record returns false for
\* each missing flag among myCalendar, allEvents and taggedDepartments and
\* writes false for it, so the record defines these three afterwards; a
\* missing myRequirements or manageLocation is left as it is.
C7_BackfillNewFields ==
    [][/\ BackfillsFlags({"myCalendar", "allEvents", "taggedDepartments"})
       /\ (Answered /\ req'.op = "get" /\ resp'.status = 200) =>
             \A doc \in RecordsOf(store, req'.department) :
                 \A f \in {"myRequirements", "manageLocation"} :
                     doc.flags[f] = Undefined =>
                         \A after \in RecordsOf(store', req'.department) :
                             after.flags[f] = Undefined]_vars

\* C7 witness: a get returned false for allEvents of a record that lacked it,
\* and the record now stores false.
C7_Witness ==
    /\ req.op = "get"
    /\ resp.status = 200
    /\ resp.data.updatedBy = Undefined
    /\ resp.data.flags["allEvents"] = "false"
    /\ resp.data.flags["myRequirements"] = "true"
    /\ \E doc \in RecordsOf(store, req.department) :
          doc.updatedBy = Undefined /\ doc.flags["allEvents"] = "false"

\* C8: the collection never holds two records of one department, and a set
\* or reset of d leaves the records of every other department as they were.
C8_OneRecordPerDepartment ==
    [][/\ \A d \in Departments : Cardinality(RecordsOf(store', d)) <= 1
       /\ (Answered /\ req'.op \in {"put", "delete"}) =>
             \A d \in Departments \ {req'.department} :
                 RecordsOf(store', d) = RecordsOf(store, d)]_vars

\* C8 witness: a set was stored while another department holds a record too,
\* and the collection holds one record for each.
C8_Witness ==
    /\ req.op = "put"
    /\ resp.status = 200
    /\ Cardinality(store) = 2
    /\ \E doc \in store : doc.department # req.department

\* C15: a get of d, whenever its backfill write is applied, leaves every
\* flag that the stored record of d holds at that moment as it is, and the
\* recorded updater too; so a record written by a set or reset while the get
\* was suspended keeps exactly the flags that were written.
C15_GetNeverOverwrites ==
    [][(Answered /\ req'.op = "get") =>
          \A doc \in RecordsOf(store, req'.department) :
              \E after \in RecordsOf(store', req'.department) :
                  /\ after.updatedBy = doc.updatedBy
                  /\ \A f \in FiveFlags :
                         doc.flags[f] # Undefined =>
                             after.flags[f] = doc.flags[f]
                  /\ doc.updatedBy \in Updaters => after.flags = doc.flags]_vars

C9_CleanupTriggerIsolated ==
    /\ unhandled = 0
    /\ pc # "crashed"
    /\ \A i \in 1..MaxCleanupCalls :
          /\ cleanupCalls[i].state = "resolved" => cleanupCalls[i].status = 200
          /\ cleanupCalls[i].state = "rejected" => cleanupCalls[i].status = 500
          /\ cleanupCalls[i].state \in {"none", "running"} =>
                cleanupCalls[i].status = 0
    /\ listening => pc = "listening"

\* C9 witness: two invocations overlapped each other and a timer-driven run
\* that failed; one pass threw and was answered 500, the other was answered
\* 200, and the server is still listening.
C9_Witness ==
    /\ cleanupCalls[1].overlapped /\ cleanupCalls[2].overlapped
    /\ cleanupCalls[1].state = "rejected" /\ cleanupCalls[1].status = 500
    /\ cleanupCalls[2].state = "resolved" /\ cleanupCalls[2].status = 200
    /\ timerRun.last = "failed"
    /\ pc = "listening"

\* C10: the scheduler is started only once the storage connection is
\* established, the server listens only after the scheduler was started,
\* mongoose.connect is called at most once, and with the connection string
\* absent or the connection failed the process has exited (or has not taken
\* its first step) with the scheduler not started and the server not
\* listening.
C10_StartupOrdering ==
    /\ schedulerStarted => connection = "connected"
    /\ listening => (schedulerStarted /\ connection = "connected")
    /\ connectAttempts <= 1
    /\ ~mongoUri =>
          /\ pc \in {"startServer", "exited"}
          /\ connectAttempts = 0
          /\ ~schedulerStarted /\ ~listening
    /\ connection = "failed" =>
          /\ pc = "exited"
          /\ ~schedulerStarted /\ ~listening
    /\ pc = "exited" => (~schedulerStarted /\ ~listening)

\* C10 witness: the server listens, with the connection established and the
\* scheduler started.
C10_Witness ==
    /\ pc = "listening"
    /\ listening
    /\ schedulerStarted
    /\ connection = "connected"

\* The failure path: the process exited after its one connection attempt
\* failed.
C10_ExitWitness ==
    /\ pc = "exited"
    /\ connection = "failed"
    /\ connectAttempts = 1

\* ------------------------------------------------------------------------
\* CORS properties
\* ------------------------------------------------------------------------

\* An allow-list is configured when CORS_ORIGINS holds a non-empty string.
Configured(env) == env # NoString /\ env # <<>>

\* origin is one of the comma-separated entries of the configured string.
IsEntry(env, origin) ==
    /\ \A i \in 1..Len(origin) : origin[i] # Comma
    /\ \E i \in 1..(Len(env) + 1) :
          LET j == i + Len(origin) - 1 IN
          /\ i = 1 \/ env[i - 1] = Comma
          /\ j <= Len(env)
          /\ SubSeq(env, i, j) = origin
          /\ j = Len(env) \/ env[j + 1] = Comma

\* The origin matches an entry of the allow-list: of the configured list, or
\* of the localhost set when none is configured.
Matches(env, origin) ==
    /\ origin # NoString
    /\ IF Configured(env)
       THEN IsEntry(env, origin)
       ELSE origin \in {<<"http://localhost:5173">>, <<"http://localhost:8080">>,
                        <<"http://localhost:3000">>}

\* The request names no origin: no Origin header, or an empty one.
NoOrigin(origin) == origin = NoString \/ origin = <<>>

\* The two layers decided the same way when they saw the same origin.
LayersAgree ==
    (httpCors.seen /\ ioCors.seen /\ httpCors.origin = ioCors.origin) =>
        httpCors.admitted = ioCors.admitted

\* C11 as stated: at both layers a request is admitted exactly when its
\* origin matches an entry of the allow-list, and the layers agree.
C11_AsStated ==
    /\ httpCors.seen =>
          (httpCors.admitted <=> Matches(corsEnv, httpCors.origin))
    /\ ioCors.seen => (ioCors.admitted <=> Matches(corsEnv, ioCors.origin))
    /\ LayersAgree

\* C11 amended: at both layers a request that names an origin is admitted
\* exactly when the origin matches an entry of the allow-list, a request that
\* names no origin is admitted, and the layers agree.
C11_OriginAllowList ==
    /\ httpCors.seen =>
          IF NoOrigin(httpCors.origin)
          THEN httpCors.admitted
          ELSE httpCors.admitted <=> Matches(corsEnv, httpCors.origin)
    /\ ioCors.seen =>
          IF NoOrigin(ioCors.origin)
          THEN ioCors.admitted
          ELSE ioCors.admitted <=> Matches(corsEnv, ioCors.origin)
    /\ LayersAgree

\* C11 witness: with the list "x,y" configured, the HTTP layer admitted the
\* origin y and the handshake layer rejected the origin xy.
C11_Witness ==
    /\ corsEnv = <<"x", Comma, "y">>
    /\ httpCors.seen /\ httpCors.origin = <<"y">> /\ httpCors.admitted
    /\ ioCors.seen /\ ioCors.origin = <<"x", "y">> /\ ~ioCors.admitted

\* With no list configured a localhost origin is admitted at both layers and
\* the origin x at neither.
C11_DefaultWitness ==
    /\ ~Configured(corsEnv)
    /\ httpCors.seen /\ httpCors.origin = <<"http://localhost:8080">>
    /\ httpCors.admitted
    /\ ioCors.seen /\ ioCors.origin = <<"x">> /\ ~ioCors.admitted

====
